---- MODULE Spec2Model ----
(***************************************************************************)
(* Guess_Number_AI (src/main.py): the bulls-and-cows solver GuessNumberAI, *)
(* its decision tree, the oracle GuessNumberChecker and the drivers play() *)
(* and GuessNumberAISelfTest.                                              *)
(*                                                                         *)
(* A digit string is a sequence of digits, '' is <<>>.  A result string    *)
(* 'aAbB' is the 4-character sequence <<a, "A", b, "B">>, None is <<>>.    *)
(* The alphabet is 0..NumDigits-1 instead of 0..9; everything else is as   *)
(* in the source.                                                          *)
(***************************************************************************)
EXTENDS Integers, Sequences, FiniteSets, TLC

\* ---------------------------------------------------------------- bounds
\* size of the digit alphabet (10 in the source)
NumDigits == 5
\* games main() plays on one engine
MaxGames == 3
\* rounds after which a game of play() is no longer followed
MaxRounds == 8
\* calls an arbitrary caller makes on one engine
MaxCalls == 5

\* ------------------------------------------------------- program constants
NumberLen == 4
NumSlots == 25
SlotBase == 5
RangeEnd == 10000
InitialScore == 100000
SelfTestCutoff == 10
ReportRounds == 7

Digits == 0 .. (NumDigits - 1)
None == <<>>
Empty == <<>>
Opening == <<0, 1, 2, 3>>
Solved == <<4, "A", 0, "B">>

\* ------------------------------------------------------------ pure helpers
\* '{:04d}'.format(i)
Format04(i) == <<i \div 1000, (i \div 100) % 10, (i \div 10) % 10, i % 10>>

\* GuessNumberAI.is_valid_answer: length 4, numeric, no digit repeated
is_valid_answer(target) ==
    /\ Len(target) = NumberLen
    /\ \A i \in 1 .. Len(target) : target[i] \in Digits
    /\ \A i \in 1 .. 3 : \A j \in (i + 1) .. Len(target) : target[i] # target[j]

\* self._number_list = list(sorted(self._numbers)): the valid strings among
\* '0000' .. '9999'; zero-padded strings sort as the integers they format
NumberList == SelectSeq([i \in 1 .. RangeEnd |-> Format04(i - 1)], is_valid_answer)

\* self._numbers
Numbers == {NumberList[i] : i \in 1 .. Len(NumberList)}

\* '{}A{}B'.format(count_a, count_b)
FormatResult(count_a, count_b) == <<count_a, "A", count_b, "B">>

\* answer with "if" in place of "elif": a digit in place is counted twice
answer_containment(query, answer_number) ==
    LET count_a == Cardinality({i \in 1 .. 4 : query[i] = answer_number[i]})
        count_b == Cardinality({i \in 1 .. 4 :
                        \E j \in 1 .. Len(answer_number) : answer_number[j] = query[i]})
    IN  FormatResult(count_a, count_b)

\* GuessNumberChecker.answer
answer(query, answer_number) ==
    LET count_a == Cardinality({i \in 1 .. 4 : query[i] = answer_number[i]})
        count_b == Cardinality({i \in 1 .. 4 :
                        /\ query[i] # answer_number[i]
                        /\ \E j \in 1 .. Len(answer_number) : answer_number[j] = query[i]})
    IN  FormatResult(count_a, count_b)

\* _check_result with the two counts compared to the wrong parameters
_check_result_swapped(number, prev, a, b) ==
    LET count_a == Cardinality({i \in 1 .. 4 : number[i] = prev[i]})
        count_b == Cardinality({i \in 1 .. 4 :
                        /\ number[i] # prev[i]
                        /\ \E j \in 1 .. Len(prev) : prev[j] = number[i]})
    IN  count_a = b /\ count_b = a

\* GuessNumberAI._check_result, with self._previous passed as prev
_check_result(number, prev, a, b) ==
    LET count_a == Cardinality({i \in 1 .. 4 : number[i] = prev[i]})
        count_b == Cardinality({i \in 1 .. 4 :
                        /\ number[i] # prev[i]
                        /\ \E j \in 1 .. Len(prev) : prev[j] = number[i]})
    IN  count_a = a /\ count_b = b

\* _filter_record deleting the keys that satisfy the condition
_filter_record_inverted(recs, prev, a, b) ==
    recs \ {key \in recs : _check_result(key, prev, a, b)}

\* _filter_record selecting from self._numbers instead of self._records
_filter_record_all(recs, prev, a, b) ==
    {key \in {NumberList[i] : i \in 1 .. Len(NumberList)} : _check_result(key, prev, a, b)}

\* GuessNumberAI._filter_record: the records left after the deletions
_filter_record(recs, prev, a, b) ==
    recs \ {key \in recs : ~ _check_result(key, prev, a, b)}

\* Body(v), with v evaluated once
With(v, Body(_)) == CHOOSE x \in {Body(w) : w \in {v}} : TRUE

MaxOf(S) == CHOOSE m \in S : \A n \in S : n <= m
MinOf(S) == CHOOSE m \in S : \A n \in S : m <= n

\* the index of _calculate_score with the two counts exchanged
Bucket_swapped(number, key) ==
    LET count_a == Cardinality({i \in 1 .. 4 : number[i] = key[i]})
        count_b == Cardinality({i \in 1 .. 4 :
                        /\ number[i] # key[i]
                        /\ \E j \in 1 .. Len(key) : key[j] = number[i]})
    IN  count_b * SlotBase + count_a

\* the index count_a * 5 + count_b that _calculate_score computes for one key
Bucket(number, key) ==
    LET count_a == Cardinality({i \in 1 .. 4 : number[i] = key[i]})
        count_b == Cardinality({i \in 1 .. 4 :
                        /\ number[i] # key[i]
                        /\ \E j \in 1 .. Len(key) : key[j] = number[i]})
    IN  count_a * SlotBase + count_b

\* _calculate_score returning min(*result)
_calculate_score_min(number, recs) ==
    LET hits == {<<key, Bucket(number, key)>> : key \in recs}
    IN  MinOf({Cardinality({h \in hits : h[2] = s}) : s \in 0 .. (NumSlots - 1)})

\* GuessNumberAI._calculate_score: the largest of the 25 counters of result
_calculate_score(number, recs) ==
    With({<<key, Bucket(number, key)>> : key \in recs},
         LAMBDA hits : MaxOf({Cardinality({h \in hits : h[2] = s}) : s \in 0 .. (NumSlots - 1)}))

\* the scan of guess() keeping the first key whatever the scores
Scan_first(recs) == NumberList[1]

\* the scan of guess() replacing the candidate on a score that is not higher,
\* so that the last key with the least score is kept
Scan_keeps_last(recs) ==
    With(recs, LAMBDA rs :
    With({<<i, _calculate_score(NumberList[i], rs)>> : i \in 1 .. Len(NumberList)}, LAMBDA scored :
    With({s \in scored : s[2] < InitialScore}, LAMBDA lower :
        IF lower = {} THEN Empty
        ELSE With(MinOf({s[2] : s \in lower}), LAMBDA least :
                  NumberList[MaxOf({s[1] : s \in {l \in lower : l[2] = least}})]))))

\* the scan of guess(): candidate = ('', 1e5) is replaced on a strictly lower
\* score only, so the loop ends on the first key of _number_list with the
\* least score
Scan(recs) ==
    With(recs, LAMBDA rs :
    With({<<i, _calculate_score(NumberList[i], rs)>> : i \in 1 .. Len(NumberList)}, LAMBDA scored :
    With({s \in scored : s[2] < InitialScore}, LAMBDA lower :
        IF lower = {} THEN Empty
        ELSE With(MinOf({s[2] : s \in lower}), LAMBDA least :
                  NumberList[MinOf({s[1] : s \in {l \in lower : l[2] = least}})]))))

\* the walk of _search_tree and _update_tree: follow the log, staying on the
\* current node when a child is absent; a node is the path of slots from the root
RECURSIVE WalkFrom(_, _, _, _)
WalkFrom(t, lg, k, tree_node) ==
    IF k > Len(lg) THEN tree_node
    ELSE LET child == Append(tree_node, lg[k][1] * SlotBase + lg[k][2])
         IN  IF child \in DOMAIN t
             THEN WalkFrom(t, lg, k + 1, child)
             ELSE WalkFrom(t, lg, k + 1, tree_node)

\* _search_tree looking under the root, without the walk
_search_tree_at_root(t, lg, a, b) ==
    LET child == <<a * SlotBase + b>>
    IN  IF child \notin DOMAIN t THEN Empty ELSE t[child]

\* GuessNumberAI._search_tree
_search_tree(t, lg, a, b) ==
    LET tree_node == WalkFrom(t, lg, 1, <<>>)
        child == Append(tree_node, a * SlotBase + b)
    IN  IF child \notin DOMAIN t THEN Empty ELSE t[child]

\* _update_tree storing the node under b * 5 + a
_update_tree_swapped(t, lg, next_guess, a, b) ==
    LET tree_node == WalkFrom(t, lg, 1, <<>>)
        child == Append(tree_node, b * SlotBase + a)
    IN  IF child \notin DOMAIN t THEN t @@ (child :> next_guess) ELSE t

\* _update_tree building a new tree that holds the root and the new node only
_update_tree_fresh(t, lg, next_guess, a, b) ==
    LET tree_node == WalkFrom(t, lg, 1, <<>>)
        child == Append(tree_node, a * SlotBase + b)
    IN  IF child \notin DOMAIN t THEN (<<>> :> Opening) @@ (child :> next_guess) ELSE t

\* _update_tree storing the node under the root, without the walk
_update_tree_at_root(t, lg, next_guess, a, b) ==
    LET child == <<a * SlotBase + b>>
    IN  IF child \notin DOMAIN t THEN t @@ (child :> next_guess) ELSE t

\* GuessNumberAI._update_tree: the tree after the call
_update_tree(t, lg, next_guess, a, b) ==
    LET tree_node == WalkFrom(t, lg, 1, <<>>)
        child == Append(tree_node, a * SlotBase + b)
    IN  IF child \notin DOMAIN t THEN t @@ (child :> next_guess) ELSE t

\* ------------------------------------------------------------------ state
VARIABLES
    previous,       \* GuessNumberAI._previous
    log,            \* GuessNumberAI._log
    records,        \* GuessNumberAI._records
    tree,           \* GuessNumberAI._tree: path of slots |-> TreeNode.record
    guessed,        \* the value the last guess() call returned
    branch,         \* the exit the last call on the engine left by
    answer_number,  \* GuessNumberChecker._answer_number of the running game
    result,         \* result of play() / _play(), the argument of guess()
    tried,          \* tried of play() / _play()
    pc,             \* position of the driver
    played,         \* games started by main() / start_self_test
    max_value,      \* start_self_test: max_value
    calls,          \* calls made by the arbitrary caller
    hist,           \* the results passed to guess() since the last guess(None)
    given,          \* the guesses returned since the last guess(None), it included
    served,         \* hist |-> <<the guess first returned for it, times it occurred>>
    scanned         \* the values of hist at which guess() ran the scan

engine == <<previous, log, records, tree>>
driver == <<answer_number, result, tried, pc, played, max_value>>
caller == <<calls, hist, given, served, scanned>>
vars == <<previous, log, records, tree, guessed, branch,
          answer_number, result, tried, pc, played, max_value,
          calls, hist, given, served, scanned>>

\* the GuessNumberAI object: its fields that change after construction
Self == [previous |-> previous, log |-> log, records |-> records, tree |-> tree]

\* GuessNumberTree.__init__ / initialize: only the root, holding '0123'
NewTree == (<<>> :> Opening)

\* initialize without self._log = []
initialize_keeps_log(self) ==
    [self EXCEPT !.previous = Empty, !.records = Numbers]

\* initialize calling self._tree.initialize() as well
initialize_resets_tree(self) ==
    [self EXCEPT !.previous = Empty, !.log = <<>>, !.records = Numbers, !.tree = NewTree]

\* GuessNumberAI.initialize: the object after the call
initialize(self) ==
    [self EXCEPT !.previous = Empty, !.log = <<>>, !.records = Numbers]

\* GuessNumberAI.__init__: the fields are set, then initialize() is called
Constructed ==
    initialize([previous |-> Empty, log |-> <<>>, records |-> {}, tree |-> NewTree])

\* the constructed engine, and the drivers before any game
Init ==
    /\ previous = Constructed.previous
    /\ log = Constructed.log
    /\ records = Constructed.records
    /\ tree = Constructed.tree
    /\ guessed = Empty
    /\ branch = "initialize"
    /\ answer_number = Empty
    /\ result = None
    /\ tried = 0
    /\ pc = "idle"
    /\ played = 0
    /\ max_value = 0
    /\ calls = 0
    /\ hist = <<>>
    /\ given = <<>>
    /\ served = <<>>
    /\ scanned = {}

\* guess(None) without self.initialize()
guess_first_no_reset(self) == [self EXCEPT !.previous = Opening]

\* guess(None): self.initialize(), then self._previous = '0123'
guess_first(self) == [initialize(self) EXCEPT !.previous = Opening]

\* the shortcut of guess() never taken
IsSingle_never(recs) == FALSE

\* guess: len(self._records) == 1
IsSingle(recs) == Cardinality(recs) = 1

\* GuessNumberAI.guess: the object after the call, the value returned and the
\* return statement taken
guess(self, res) ==
    IF res = None
    THEN [self |-> guess_first(self), ret |-> Opening, branch |-> "opening"]
    ELSE LET a == res[1]
             b == res[3]
         IN  With(_filter_record(self.records, self.previous, a, b), LAMBDA filtered :
             IF IsSingle(filtered)
             THEN [self |-> [self EXCEPT !.records = filtered],
                   ret |-> CHOOSE r \in filtered : TRUE, branch |-> "single"]
             ELSE With(_search_tree(self.tree, self.log, a, b), LAMBDA search_result :
                  IF search_result # Empty
                  THEN [self |-> [self EXCEPT !.records = filtered,
                                              !.previous = search_result,
                                              !.log = Append(self.log, <<a, b>>)],
                        ret |-> search_result, branch |-> "cache"]
                  ELSE With(Scan(filtered), LAMBDA candidate :
                       [self |-> [self EXCEPT
                            !.records = filtered,
                            !.tree = _update_tree(self.tree, self.log, candidate, a, b),
                            !.previous = candidate,
                            !.log = Append(self.log, <<a, b>>)],
                        ret |-> candidate, branch |-> "scan"])))

\* the value guess returns when the tree is left out: the opening, the single
\* record, or the scan's choice on every other call
guess_without_tree(self, res) ==
    IF res = None
    THEN Opening
    ELSE With(_filter_record(self.records, self.previous, res[1], res[3]), LAMBDA filtered :
             IF IsSingle(filtered) THEN CHOOSE r \in filtered : TRUE ELSE Scan(filtered))

\* the engine's fields after a call that leaves the object as after
Becomes(after) ==
    /\ previous' = after.previous
    /\ log' = after.log
    /\ records' = after.records
    /\ tree' = after.tree

\* ------------------------------------------------------------ main / play
\* the answer numbers main() is given: the scenarios '0123' and '1234', the
\* boundary case (leading zero, then the largest digits) and a number that
\* shares its first result with '1234'
Secrets ==
    {Opening, <<1, 2, 3, 4>>, <<0, NumDigits - 1, NumDigits - 2, NumDigits - 3>>,
     <<1, 2, 4, 0>>}

\* main: the next answer number is valid; play() up to its while loop
PlayStart(number) ==
    /\ pc = "idle"
    /\ played < MaxGames
    /\ is_valid_answer(number)
    /\ played' = played + 1
    /\ answer_number' = number
    /\ Becomes(initialize(Self))
    /\ branch' = "initialize"
    /\ result' = None
    /\ tried' = 0
    /\ pc' = "play"
    /\ UNCHANGED <<guessed, max_value, caller>>

\* play: one iteration of the while loop
PlayRound ==
    /\ pc = "play"
    /\ result # Solved
    /\ tried < MaxRounds
    /\ tried' = tried + 1
    /\ \E out \in {guess(Self, result)} :
          /\ Becomes(out.self)
          /\ guessed' = out.ret
          /\ branch' = out.branch
          /\ result' = answer(out.ret, answer_number)
    /\ UNCHANGED <<answer_number, pc, played, max_value, caller>>

\* play: the loop condition fails, play returns tried
PlayReturn ==
    /\ pc = "play"
    /\ result = Solved
    /\ pc' = "idle"
    /\ UNCHANGED <<engine, guessed, branch, answer_number, result, tried,
                   played, max_value, caller>>

Next ==
    \/ \E number \in Secrets : PlayStart(number)
    \/ PlayRound
    \/ PlayReturn

Spec == Init /\ [][Next]_vars

\* the loop of play() has no suspension point: an enabled iteration runs
LiveSpec == Spec /\ WF_vars(PlayRound)

\* ------------------------------------------------- GuessNumberAISelfTest
\* start_self_test: the loop over numbers calls _play, up to its while loop
SelfTestPlay ==
    /\ pc = "idle"
    /\ played < Len(NumberList)
    /\ played' = played + 1
    /\ answer_number' = NumberList[played + 1]
    /\ Becomes(initialize(Self))
    /\ branch' = "initialize"
    /\ result' = None
    /\ tried' = 0
    /\ pc' = "play"
    /\ UNCHANGED <<guessed, max_value, caller>>

\* _play: one iteration of the while loop, with the cutoff's break
SelfTestRound ==
    /\ pc = "play"
    /\ result # Solved
    /\ tried' = tried + 1
    /\ \E out \in {guess(Self, result)} :
          /\ Becomes(out.self)
          /\ guessed' = out.ret
          /\ branch' = out.branch
          /\ result' = answer(out.ret, answer_number)
    /\ pc' = IF tried' >= SelfTestCutoff THEN "break" ELSE "play"
    /\ UNCHANGED <<answer_number, played, max_value, caller>>

\* _play returns tried; start_self_test takes the maximum and goes on
SelfTestReturn ==
    /\ \/ pc = "play" /\ result = Solved
       \/ pc = "break"
    /\ max_value' = IF tried > max_value THEN tried ELSE max_value
    /\ pc' = "idle"
    /\ UNCHANGED <<engine, guessed, branch, answer_number, result, tried,
                   played, caller>>

NextSelfTest == SelfTestPlay \/ SelfTestRound \/ SelfTestReturn

SpecSelfTest == Init /\ [][NextSelfTest]_vars

\* --------------------------------------- the engine under an arbitrary caller
\* the result strings the caller passes, accurate for some secret or not
Results ==
    {FormatResult(4, 0), FormatResult(0, 4), FormatResult(3, 0), FormatResult(2, 1),
     FormatResult(2, 2)}

\* engine.initialize()
CallInitialize ==
    /\ calls < MaxCalls
    /\ calls' = calls + 1
    /\ Becomes(initialize(Self))
    /\ branch' = "initialize"
    /\ hist' = <<>>
    /\ given' = <<>>
    /\ UNCHANGED <<guessed, driver, served, scanned>>

\* engine.guess(None)
CallGuessNone ==
    /\ calls < MaxCalls
    /\ calls' = calls + 1
    /\ \E out \in {guess(Self, None)} :
          /\ Becomes(out.self)
          /\ guessed' = out.ret
          /\ branch' = out.branch
          /\ given' = <<out.ret>>
    /\ result' = None
    /\ hist' = <<>>
    /\ UNCHANGED <<answer_number, tried, pc, played, max_value, served, scanned>>

\* engine.guess(res) before any guess(None): _check_result indexes the empty
\* _previous and raises IndexError before a record is deleted
CallGuessRaises(res) ==
    /\ calls < MaxCalls
    /\ previous = Empty
    /\ records # {}
    /\ calls' = calls + 1
    /\ result' = res
    /\ branch' = "IndexError"
    /\ UNCHANGED <<engine, guessed, answer_number, tried, pc, played, max_value,
                   hist, given, served, scanned>>

\* engine.guess(res)
CallGuess(res) ==
    /\ calls < MaxCalls
    /\ ~ (previous = Empty /\ records # {})
    /\ calls' = calls + 1
    /\ \E out \in {guess(Self, res)} :
          /\ Becomes(out.self)
          /\ guessed' = out.ret
          /\ branch' = out.branch
          /\ given' = Append(given, out.ret)
    /\ result' = res
    /\ hist' = Append(hist, res)
    /\ served' = IF hist' \in DOMAIN served
                 THEN [served EXCEPT ![hist'] = <<@[1], @[2] + 1>>]
                 ELSE served @@ (hist' :> <<guessed', 1>>)
    /\ scanned' = IF branch' = "scan" THEN scanned \cup {hist'} ELSE scanned
    /\ UNCHANGED <<answer_number, tried, pc, played, max_value>>

NextCaller ==
    \/ CallInitialize
    \/ CallGuessNone
    \/ \E res \in Results : CallGuessRaises(res)
    \/ \E res \in Results : CallGuess(res)

SpecCaller == Init /\ [][NextCaller]_vars

\* ------------------------------------- a game of play() after arbitrary calls
\* the answer numbers of the game: rearrangements of the opening guess and a
\* number one digit away from it
LaterSecrets == {<<1, 2, 3, 0>>, <<0, 1, 3, 2>>, <<0, 1, 2, 4>>}

\* a caller's guess(None) and guess(res) calls on the engine, with any results,
\* then main() plays one game on the same engine
NextMisuse ==
    \/ pc = "idle" /\ played = 0 /\ CallGuessNone
    \/ \E res \in Results : pc = "idle" /\ played = 0 /\ CallGuess(res)
    \/ \E number \in LaterSecrets : played = 0 /\ PlayStart(number)
    \/ PlayRound
    \/ PlayReturn

SpecMisuse == Init /\ [][NextMisuse]_vars

\* ------------------------------------------------- the scorer on its own
\* the queries put to a checker: the opening guess, its reversal, two of its
\* rearrangements and a number with the largest digits
Queries ==
    {Opening, <<3, 2, 1, 0>>, <<0, 1, 3, 2>>, <<1, 2, 3, 0>>,
     <<NumDigits - 1, NumDigits - 2, NumDigits - 3, NumDigits - 4>>}

\* GuessNumberChecker(number).answer(query) for valid number and query
ScoreCall(query, number) ==
    /\ pc = "idle"
    /\ is_valid_answer(query)
    /\ is_valid_answer(number)
    /\ answer_number' = number
    /\ guessed' = query
    /\ result' = answer(query, number)
    /\ pc' = "scored"
    /\ UNCHANGED <<engine, branch, tried, played, max_value, caller>>

NextScore == \E query \in Queries : \E number \in Numbers : ScoreCall(query, number)

SpecScore == Init /\ [][NextScore]_vars

\* ----------------------------------------------------------------- claims
\* C1: every game of play(), whatever the earlier games left in the tree,
\* reaches the result 4A0B.
C1_PlayTerminates == (pc = "play") ~> (result = Solved)

\* a last game on a number with a leading zero is solved after earlier games
C1_SolvedAfterGames ==
    /\ pc = "play"
    /\ result = Solved
    /\ played = MaxGames
    /\ answer_number[1] = 0
    /\ answer_number # Opening
    /\ tried > 2

C3_OpeningResets ==
    branch = "opening" =>
        /\ guessed = Opening
        /\ records = Numbers
        /\ log = <<>>
        /\ previous = Opening
        /\ answer(guessed, Opening) = Solved

\* guess(None) on an engine whose tree earlier calls have filled
C3_OpeningAfterCalls == branch = "opening" /\ calls >= 3 /\ DOMAIN tree # {<<>>}

Consistent(s) ==
    /\ Len(given) = Len(hist) + 1
    /\ \A k \in 1 .. Len(hist) : answer(given[k], s) = hist[k]

\* C5: a guess(result) call whose filtering leaves one record returns that
\* record by the shortcut, with the tree and the log untouched, and that
\* record is every secret the results of the game are accurate for.
C5_SingleRecordShortcut ==
    [][(hist' # hist /\ hist' # <<>> /\ Cardinality(records') = 1) =>
            /\ branch' = "single"
            /\ records' = {guessed'}
            /\ tree' = tree
            /\ log' = log
            /\ \A s \in Numbers :
                  Consistent(s)' => (s = guessed' /\ answer(guessed', s) = Solved)]_vars

\* the shortcut returned the secret of a game with accurate results
C5_ShortcutReturnsSecret ==
    /\ branch = "single"
    /\ Len(hist) >= 2
    /\ records = {guessed}
    /\ Consistent(guessed)

\* C6: a guess(result) call that leaves no record returns no guess and stores
\* no node.
C6_ContradictionSurfaces ==
    (hist # <<>> /\ records = {}) => branch \notin {"single", "cache", "scan"}

\* C7: a history of results is answered with the guess it was first answered
\* with on this engine.
C7_CacheDeterminism ==
    hist # <<>> => (hist \in DOMAIN served /\ served[hist][1] = guessed)

\* a history of results that occurs for the second time
C7_SameHistoryAgain ==
    /\ hist # <<>>
    /\ hist \in DOMAIN served
    /\ served[hist][2] >= 2
    /\ served[hist][1] = guessed
    /\ guessed # Opening

\* C8: a guess call that arrives with a history the scan already ran for takes
\* the guess stored in the tree and leaves the tree as it is.
C8_NoRescan ==
    [][(hist' # hist /\ hist' \in scanned) =>
            /\ branch' = "cache"
            /\ tree' = tree
            /\ guessed' = _search_tree(tree, log, result'[1], result'[3])]_vars

\* a history the scan ran for is answered from the tree
C8_ServedFromTree == branch = "cache" /\ hist \in scanned

\* C9: initialize(), also as called by guess(None), leaves the tree as it is.
C9_InitializeKeepsTree ==
    [][(calls' # calls /\ branch' \in {"initialize", "opening"}) => tree' = tree]_vars

\* initialize() on an engine whose tree holds nodes below the root
C9_InitializedWithNodes ==
    branch = "initialize" /\ calls > 0 /\ Cardinality(DOMAIN tree) >= 3

\* C10: the records are numbers; a step leaves them a subset of what they
\* were, or it is initialize() or guess(None) and leaves all numbers.
C10_RecordsOnlyShrink ==
    [][/\ records' \subseteq Numbers
       /\ \/ records' \subseteq records
          \/ branch' \in {"initialize", "opening"} /\ records' = Numbers]_vars

\* the records were filtered twice and some are left
C10_ShrunkTwice ==
    /\ Len(hist) >= 2
    /\ Cardinality(records) > 1
    /\ records # Numbers

\* C11: for valid x and y the scorer's counts add up to at most 4, four digits
\* in place mean x = y, and x scored against itself is 4A0B.
C11_ScorerTotals ==
    pc = "scored" =>
        /\ result[1] + result[3] <= 4
        /\ result[1] = 4 => guessed = answer_number
        /\ \A x \in Numbers :
              /\ answer(x, answer_number)[1] \in 0 .. 4
              /\ answer(x, answer_number)[3] \in 0 .. 4
              /\ answer(x, answer_number)[1] + answer(x, answer_number)[3] <= 4
              /\ answer(x, answer_number)[1] = 4 => x = answer_number
        /\ answer(answer_number, answer_number) = Solved

\* two different numbers over the same four digits, two of them in place
C11_AllDigitsShared ==
    pc = "scored" /\ result = FormatResult(2, 2) /\ guessed # answer_number

\* C19: for valid x and y the scorer gives the same result both ways round, so
\* the test of _check_result, the oracle's result and the index of
\* _calculate_score name the same pair (a, b).
C19_ScorerSymmetric ==
    pc = "scored" =>
        /\ result = answer(answer_number, guessed)
        /\ \A a \in 0 .. 4 : \A b \in 0 .. 4 :
              /\ _check_result(answer_number, guessed, a, b) <=> (result = FormatResult(a, b))
              /\ _check_result(answer_number, guessed, a, b)
                     <=> (Bucket(guessed, answer_number) = a * SlotBase + b)
        /\ \A x \in Numbers :
              /\ answer(x, answer_number) = answer(answer_number, x)
              /\ _check_result(answer_number, x, answer(x, answer_number)[1],
                                                 answer(x, answer_number)[3])
              /\ Bucket(x, answer_number)
                     = answer(x, answer_number)[1] * SlotBase + answer(x, answer_number)[3]

\* a pair whose two counts differ, none of them zero
C19_UnequalCounts ==
    pc = "scored" /\ result = FormatResult(1, 2) /\ guessed = Opening

\* x comes before y in ascending order of the strings
Before(x, y) ==
    \E i \in 1 .. NumberLen :
        /\ x[i] < y[i]
        /\ \A j \in 1 .. (i - 1) : x[j] = y[j]

\* the size of the largest set of records that one result of the oracle for
\* the guess g leaves
LargestBucket(g, recs) ==
    With({<<r, answer(g, r)>> : r \in recs}, LAMBDA scored :
    With({p[2] : p \in scored}, LAMBDA outcomes :
        MaxOf({Cardinality({p \in scored : p[2] = o}) : o \in outcomes})))

\* C12: a guess taken from the scan over two or more records is a number, no
\* number leaves a smaller largest bucket on the records, and no number that
\* leaves an equally large one comes before it in ascending order.
C12_MinimaxChoice ==
    (branch = "scan" /\ Cardinality(records) >= 2) =>
        /\ guessed \in Numbers
        /\ With(LargestBucket(guessed, records), LAMBDA best :
                \A g \in Numbers :
                    With(LargestBucket(g, records), LAMBDA score :
                        /\ best <= score
                        /\ score = best => ~ Before(g, guessed)))

\* the scan chose a number that is not a record
C12_ScanChoseOutsideRecords ==
    /\ branch = "scan"
    /\ Cardinality(records) >= 2
    /\ guessed \notin records
    /\ Len(hist) >= 2

\* C13: in every step the root holds '0123', every node of the tree is still
\* a node afterwards and holds the guess it held.
C13_TreeOnlyGrows ==
    [][/\ <<>> \in DOMAIN tree' /\ tree'[<<>>] = Opening
       /\ \A node \in DOMAIN tree : node \in DOMAIN tree' /\ tree'[node] = tree[node]]_vars

\* the scan stored a node in a tree that holds a node two levels below the root
C13_GrownTree ==
    /\ branch = "scan"
    /\ Cardinality(DOMAIN tree) >= 4
    /\ \E node \in DOMAIN tree : Len(node) = 2

\* the node that the walk over the entries of lg is meant to end on
RECURSIVE PathOf(_)
PathOf(lg) ==
    IF lg = <<>> THEN <<>>
    ELSE Append(PathOf(SubSeq(lg, 1, Len(lg) - 1)),
                lg[Len(lg)][1] * SlotBase + lg[Len(lg)][2])

\* C15: the node of every prefix of the log is in the tree, so the walk of
\* _search_tree and _update_tree over the log never stays on a node for want
\* of a child.
C15_LogPathExists ==
    /\ \A k \in 0 .. Len(log) : PathOf(SubSeq(log, 1, k)) \in DOMAIN tree
    /\ WalkFrom(tree, log, 1, <<>>) = PathOf(log)

\* a log of two entries: the call that appended the second walked the first
C15_WalkedTwoEntries ==
    /\ Len(log) >= 2
    /\ Len(PathOf(log)) = Len(log)
    /\ tree[PathOf(log)] = guessed
    /\ records # {}

\* C14: after every guess call, _previous, which the next call filters
\* against, is the guess that the call returned, the shortcut's included.
C14_PreviousIsLastGuess ==
    branch \in {"opening", "single", "cache", "scan"} => previous = guessed

\* C16: in games with the oracle's results, every guess call returns what the
\* engine without the tree returns from the same records, previous guess and
\* result; the two engines then hold the same records and previous guess again.
C16_CacheTransparent ==
    [][tried' = tried + 1 => guessed' = guess_without_tree(Self, result)]_vars

\* a game after the first is won on a guess taken from the tree
C16_WonFromTree ==
    /\ pc = "play"
    /\ played >= 3
    /\ branch = "cache"
    /\ result = Solved
    /\ guessed # Opening

\* C17: in a game of play() that follows arbitrary guess calls on the same
\* engine, every guess is the one a fresh engine returns, which is the one the
\* engine without the tree returns.
C17_MisuseDoesNotLeak ==
    [][(pc = "play" /\ calls > 0 /\ tried' = tried + 1)
            => guessed' = guess_without_tree(Self, result)]_vars

====
